---------------------------- MODULE Spec2Model ----------------------------
(***************************************************************************)
(* multilang-probe: script classification (character_detection.py), code  *)
(* detection (code_detection.py) and the script/math/code filtering       *)
(* engine (text_filtering.py).                                             *)
(*                                                                         *)
(* A text is a sequence of Unicode code points (naturals).  A script name  *)
(* is a sequence of code points too, so that strip() and lower() are       *)
(* computed, not assumed.  Percentages are integers counting hundredths of *)
(* a percent (28.57 is 2857), which is what round(x, 2) produces.          *)
(***************************************************************************)
EXTENDS Integers, Sequences, FiniteSets, TLC

VARIABLES
    CHARACTER_SETS,   \* character_detection.CHARACTER_SETS: name -> pattern
    SCRIPT_ALIASES,   \* text_filtering.SCRIPT_ALIASES: name -> pattern
    text,             \* argument: the text of the call(s)
    scripts,          \* argument: list of script names
    math,             \* argument: remove_math / include_math
    code,             \* argument: remove_code / include_code
    keep_whitespace,  \* argument of extract_scripts_and_math
    threshold,        \* argument of detect_code_like_language, in hundredths
    removed,          \* outcome of remove_scripts_and_math, or NoCall
    extracted,        \* outcome of extract_scripts_and_math, or NoCall
    classified,       \* outcome of classify_text_with_proportions, or NoCall
    detected          \* outcome of detect_code_like_language, or NoCall

vars == <<CHARACTER_SETS, SCRIPT_ALIASES, text, scripts, math, code,
          keep_whitespace, threshold, removed, extracted, classified, detected>>

-----------------------------------------------------------------------------
(* Bounds of the model. *)

\* Longest text, counted in tokens of TextTokens.
MaxTok == 3
\* Longest list of script names.
MaxScripts == 2
\* Longest text handed to the two detectors, in code points.
MaxLen == 3

-----------------------------------------------------------------------------
(* Code points used by the inputs.                                         *)
(*   32 SPACE         12288 IDEOGRAPHIC SPACE (whitespace, not Basic Latin)*)
(*   43 +             96 `            73 I        102 f       105 i        *)
(*   1055 CYRILLIC PE                 8704 FOR ALL                         *)
(*   12363 HIRAGANA KA   12364 HIRAGANA GA   12441 COMBINING VOICED MARK   *)
(*   20013 CJK IDEOGRAPH 4E2D                                              *)

RECURSIVE Flatten(_)
Flatten(ss) == IF ss = <<>> THEN <<>> ELSE Head(ss) \o Flatten(Tail(ss))

SeqsUpTo(S, n) == UNION {[1..k -> S] : k \in 0..n}

\* The positions of s that are in idx, in order (a subsequence of s).
RECURSIVE SubAt(_, _, _)
SubAt(s, idx, i) ==
    IF i > Len(s) THEN <<>>
    ELSE (IF i \in idx THEN <<s[i]>> ELSE <<>>) \o SubAt(s, idx, i + 1)

\* str.isspace() of one character.
IsSpace(c) ==
    \/ c \in 9..13
    \/ c \in 28..32
    \/ c \in {133, 160, 5760, 8232, 8233, 8239, 8287, 12288}
    \/ c \in 8192..8202

\* unicodedata.normalize("NFC", text), on the code points of the inputs: the
\* only canonical composition among them is KA + COMBINING VOICED MARK -> GA
\* (GA itself decomposes to that pair and is recomposed; a mark after any
\* other character stays).
RECURSIVE NFC(_)
NFC(s) ==
    IF Len(s) < 2 THEN s
    ELSE IF s[1] = 12363 /\ s[2] = 12441
         THEN <<12364>> \o NFC(SubSeq(s, 3, Len(s)))
         ELSE <<s[1]>> \o NFC(Tail(s))

\* str.lower() of one character (ASCII and Latin-1 letters).
LowerChar(c) ==
    IF c \in 65..90 \/ (c \in 192..222 /\ c # 215) THEN c + 32 ELSE c

Lower(s) == [i \in 1..Len(s) |-> LowerChar(s[i])]

\* str.strip(): leading and trailing whitespace removed.
RECURSIVE LStrip(_)
LStrip(s) == IF s # <<>> /\ IsSpace(Head(s)) THEN LStrip(Tail(s)) ELSE s

RECURSIVE RStrip(_)
RStrip(s) ==
    IF s # <<>> /\ IsSpace(s[Len(s)]) THEN RStrip(SubSeq(s, 1, Len(s) - 1)) ELSE s

Strip(s) == RStrip(LStrip(s))

-----------------------------------------------------------------------------
(* Patterns.  A one-character pattern is a record:                         *)
(*   [kind |-> "ranges", ranges |-> set of <<lo, hi>>]     [...]           *)
(*   [kind |-> "not",    ranges |-> set of <<lo, hi>>]     [^...]          *)
(*   [kind |-> "script", names  |-> set of script values]  \p{...}         *)

Ranges(rs) == [kind |-> "ranges", ranges |-> rs, names |-> {}]
NotRanges(rs) == [kind |-> "not", ranges |-> rs, names |-> {}]
ScriptProp(ns) == [kind |-> "script", ranges |-> {}, names |-> ns]

\* The Unicode Script property of the code points used by the inputs
\* (Scripts.txt of the Unicode Character Database).
UnicodeScript(c) ==
    CASE c \in 65..90 \/ c \in 97..122 -> "Latin"
      [] c \in 1024..1279 -> "Cyrillic"
      [] c = 12441 -> "Inherited"
      [] c \in 12353..12438 -> "Hiragana"
      [] c \in 19968..40959 -> "Han"
      [] OTHER -> "Common"

InRanges(c, rs) == \E r \in rs : r[1] <= c /\ c <= r[2]

\* pattern.match(char) for a one-character pattern and a one-character string.
PatternMatch(p, c) ==
    CASE p.kind = "ranges" -> InRanges(c, p.ranges)
      [] p.kind = "not" -> ~InRanges(c, p.ranges)
      [] p.kind = "script" -> UnicodeScript(c) \in p.names

\* Dictionary keys, as code points.
K_japonais == <<106, 97, 112, 111, 110, 97, 105, 115>>
K_kanji == <<107, 97, 110, 106, 105>>
K_coreen == <<99, 111, 114, 233, 101, 110>>
K_russe == <<114, 117, 115, 115, 101>>
K_arabe == <<97, 114, 97, 98, 101>>
K_hebreu == <<104, 233, 98, 114, 101, 117>>
K_grec == <<103, 114, 101, 99>>
K_latin_etendu == <<108, 97, 116, 105, 110, 32, 233, 116, 101, 110, 100, 117>>
K_autre == <<97, 117, 116, 114, 101>>
K_chinois == <<99, 104, 105, 110, 111, 105, 115>>
K_hiragana == <<104, 105, 114, 97, 103, 97, 110, 97>>
K_katakana == <<107, 97, 116, 97, 107, 97, 110, 97>>
K_han == <<104, 97, 110>>
K_japanese == <<106, 97, 112, 97, 110, 101, 115, 101>>
K_chinese == <<99, 104, 105, 110, 101, 115, 101>>

\* The CHARACTER_SETS dictionary as the module defines it.
CharacterSetsTable ==
    (K_japonais :> Ranges({<<12352, 12447>>, <<12448, 12543>>, <<12784, 12799>>}))
    @@ (K_kanji :> Ranges({<<19968, 40959>>}))
    @@ (K_coreen :> Ranges({<<44032, 55215>>, <<4352, 4607>>}))
    @@ (K_russe :> Ranges({<<1024, 1279>>}))
    @@ (K_arabe :> Ranges({<<1536, 1791>>, <<1872, 1919>>}))
    @@ (K_hebreu :> Ranges({<<1424, 1535>>}))
    @@ (K_grec :> Ranges({<<880, 1023>>}))
    @@ (K_latin_etendu :> Ranges({<<256, 591>>}))
    @@ (K_autre :> NotRanges({<<0, 127>>}))

\* The SCRIPT_ALIASES dictionary: {**CHARACTER_SETS, five more entries}.
ScriptAliasesTable ==
    (K_hiragana :> ScriptProp({"Hiragana"}))
    @@ (K_katakana :> ScriptProp({"Katakana"}))
    @@ (K_han :> ScriptProp({"Han"}))
    @@ (K_japanese :> ScriptProp({"Hiragana", "Katakana", "Han"}))
    @@ (K_chinese :> ScriptProp({"Han"}))
    @@ CharacterSetsTable

-----------------------------------------------------------------------------
(* code_detection.py: the four patterns. *)

\* CODE_SYMBOL_PATTERN: [{}()[\];,.:=<>/*+\-_|#@`$%^&~]
CODE_SYMBOL_PATTERN ==
    {35, 36, 37, 38, 40, 41, 42, 43, 44, 45, 46, 47, 58, 59, 60, 61, 62, 64,
     91, 93, 94, 95, 96, 123, 124, 125, 126}

IsCodeSymbol(c) == c \in CODE_SYMBOL_PATTERN

\* The alternatives of CODE_KEYWORD_PATTERN, lower-cased (the pattern is
\* compiled with IGNORECASE): def class return import from as with lambda
\* yield async await try except finally if elif else for while break continue
\* pass raise function const let var new this switch case default library
\* require pkg data model plot ggplot select from where insert update delete.
CODE_KEYWORDS ==
    {
      <<100, 101, 102>>, <<99, 108, 97, 115, 115>>,
      <<114, 101, 116, 117, 114, 110>>, <<105, 109, 112, 111, 114, 116>>,
      <<102, 114, 111, 109>>, <<97, 115>>, <<119, 105, 116, 104>>,
      <<108, 97, 109, 98, 100, 97>>, <<121, 105, 101, 108, 100>>,
      <<97, 115, 121, 110, 99>>, <<97, 119, 97, 105, 116>>,
      <<116, 114, 121>>, <<101, 120, 99, 101, 112, 116>>,
      <<102, 105, 110, 97, 108, 108, 121>>, <<105, 102>>,
      <<101, 108, 105, 102>>, <<101, 108, 115, 101>>, <<102, 111, 114>>,
      <<119, 104, 105, 108, 101>>, <<98, 114, 101, 97, 107>>,
      <<99, 111, 110, 116, 105, 110, 117, 101>>, <<112, 97, 115, 115>>,
      <<114, 97, 105, 115, 101>>, <<102, 117, 110, 99, 116, 105, 111, 110>>,
      <<99, 111, 110, 115, 116>>, <<108, 101, 116>>, <<118, 97, 114>>,
      <<110, 101, 119>>, <<116, 104, 105, 115>>,
      <<115, 119, 105, 116, 99, 104>>, <<99, 97, 115, 101>>,
      <<100, 101, 102, 97, 117, 108, 116>>,
      <<108, 105, 98, 114, 97, 114, 121>>,
      <<114, 101, 113, 117, 105, 114, 101>>, <<112, 107, 103>>,
      <<100, 97, 116, 97>>, <<109, 111, 100, 101, 108>>,
      <<112, 108, 111, 116>>, <<103, 103, 112, 108, 111, 116>>,
      <<115, 101, 108, 101, 99, 116>>, <<102, 114, 111, 109>>,
      <<119, 104, 101, 114, 101>>, <<105, 110, 115, 101, 114, 116>>,
      <<117, 112, 100, 97, 116, 101>>, <<100, 101, 108, 101, 116, 101>>
    }

\* \w of the pattern engine: ASCII letters, digits and underscore, and among
\* the other code points used by the inputs the letters and the combining
\* mark (a mark is a word character under UTS #18).
IsWordChar(c) ==
    \/ c \in 48..57 \/ c \in 65..90 \/ c \in 97..122 \/ c = 95
    \/ c \in {1055, 12363, 12364, 12441, 20013}

\* \b at the gap before position p (1-based; p = Len(t) + 1 is the end).
WordBoundary(t, p) ==
    LET before == p > 1 /\ IsWordChar(t[p - 1])
        after == p <= Len(t) /\ IsWordChar(t[p])
    IN before # after

\* The keyword alternative matches t at p, ignoring case, with \b after it.
KeywordAt(t, p, kw) ==
    /\ p + Len(kw) - 1 <= Len(t)
    /\ \A i \in 1..Len(kw) : LowerChar(t[p + i - 1]) = kw[i]
    /\ WordBoundary(t, p + Len(kw))

\* CODE_KEYWORD_PATTERN.finditer(t) from position p on: the matches as
\* <<start, end>> pairs, end exclusive, leftmost first and not overlapping.
RECURSIVE KeywordMatches(_, _)
KeywordMatches(t, p) ==
    IF p > Len(t) THEN {}
    ELSE LET hits == IF WordBoundary(t, p)
                     THEN {kw \in CODE_KEYWORDS : KeywordAt(t, p, kw)} ELSE {}
         IN IF hits = {} THEN KeywordMatches(t, p + 1)
            ELSE LET kw == CHOOSE k \in hits : TRUE
                 IN {<<p, p + Len(kw)>>} \cup KeywordMatches(t, p + Len(kw))

IsFence(t, p) ==
    p + 2 <= Len(t) /\ t[p] = 96 /\ t[p + 1] = 96 /\ t[p + 2] = 96

\* CODE_BLOCK_PATTERN = ```.*?``` with DOTALL: from an opening fence to the
\* nearest closing fence after it.
RECURSIVE BlockMatches(_, _)
BlockMatches(t, p) ==
    IF p > Len(t) THEN {}
    ELSE LET closes == {q \in (p + 3)..Len(t) : IsFence(t, q)}
         IN IF IsFence(t, p) /\ closes # {}
            THEN LET q == CHOOSE x \in closes : \A y \in closes : x <= y
                 IN {<<p, q + 3>>} \cup BlockMatches(t, q + 3)
            ELSE BlockMatches(t, p + 1)

\* CODE_INLINE_PATTERN = `[^`]+`: a backquote, one or more characters that
\* are not backquotes, a backquote.
RECURSIVE InlineMatches(_, _)
InlineMatches(t, p) ==
    IF p > Len(t) THEN {}
    ELSE LET closes == {q \in (p + 2)..Len(t) :
                           t[q] = 96 /\ \A j \in (p + 1)..(q - 1) : t[j] # 96}
         IN IF t[p] = 96 /\ closes # {}
            THEN LET q == CHOOSE x \in closes : TRUE
                 IN {<<p, q + 1>>} \cup InlineMatches(t, q + 1)
            ELSE InlineMatches(t, p + 1)

\* math_detection.MATH_PATTERN, one character: the ASCII operators the tests
\* use (+ = ^) and the Mathematical Operators block.
IsMathSymbol(c) == c \in {43, 61, 94} \/ c \in 8704..8959

-----------------------------------------------------------------------------
(* text_filtering.py *)

\* The values of the Unicode Script property the pattern engine knows, among
\* those of the code points used by the inputs, by lower-cased name (the
\* engine looks property values up ignoring case).  Any other name makes
\* regex.compile(r"\p{Script=<name>}") raise regex.error.
ScriptValues ==
    (<<99, 121, 114, 105, 108, 108, 105, 99>> :> "Cyrillic")
    @@ (<<108, 97, 116, 105, 110>> :> "Latin")
    @@ (<<99, 111, 109, 109, 111, 110>> :> "Common")
    @@ (<<105, 110, 104, 101, 114, 105, 116, 101, 100>> :> "Inherited")
    @@ (K_hiragana :> "Hiragana")
    @@ (K_katakana :> "Katakana")
    @@ (K_han :> "Han")

\* Variant: a name that does not compile is dropped like an empty one.
ResolveKind_IgnoresUnknown(script) ==
    LET script_name == Strip(script)
        key == Lower(script_name)
    IN IF script_name = <<>> THEN "skip"
       ELSE IF key \in DOMAIN SCRIPT_ALIASES THEN "alias"
       ELSE IF key \in DOMAIN ScriptValues THEN "prop"
       ELSE "skip"

\* What one entry of the list does in _compile_script_patterns:
\*   "skip"  the entry is empty after strip(): continue
\*   "alias" SCRIPT_ALIASES.get(key) is a pattern
\*   "prop"  the fallback \p{Script=<name>} compiles
\*   "error" the fallback does not compile: ValueError
ResolveKind(script) ==
    LET script_name == Strip(script)
        key == Lower(script_name)
    IN IF script_name = <<>> THEN "skip"
       ELSE IF key \in DOMAIN SCRIPT_ALIASES THEN "alias"
       ELSE IF key \in DOMAIN ScriptValues THEN "prop"
       ELSE "error"

\* The compiled pattern of an entry that resolves.
ResolvePattern(script) ==
    LET key == Lower(Strip(script))
    IN IF key \in DOMAIN SCRIPT_ALIASES THEN SCRIPT_ALIASES[key]
       ELSE ScriptProp({ScriptValues[key]})

\* Variant: no try/except around regex.compile.
CompileError_Unwrapped(script) == "regex.error"

\* try: regex.compile(pattern) / except regex.error: raise ValueError.  The
\* exception that leaves _compile_script_patterns for a name that does not
\* compile.
CompileError(script) == "ValueError"

\* The loop of _compile_script_patterns from entry i on, patterns being the
\* dictionary built so far; the first entry that does not compile raises, and
\* error names the exception ("" when none).
RECURSIVE CompileFrom(_, _, _)
CompileFrom(scr, i, patterns) ==
    IF i > Len(scr) THEN [error |-> "", patterns |-> patterns]
    ELSE LET kind == ResolveKind(scr[i])
         IN CASE kind = "skip" -> CompileFrom(scr, i + 1, patterns)
              [] kind = "error" -> [error |-> CompileError(scr[i]), patterns |-> << >>]
              [] OTHER ->
                   CompileFrom(scr, i + 1,
                               (Strip(scr[i]) :> ResolvePattern(scr[i])) @@ patterns)

_compile_script_patterns(scr) ==
    IF scr = <<>> THEN [error |-> "", patterns |-> << >>]
    ELSE CompileFrom(scr, 1, << >>)

\* _find_code_spans: block, inline and keyword matches, as <<start, end>>.
_find_code_spans(t) ==
    BlockMatches(t, 1) \cup InlineMatches(t, 1) \cup KeywordMatches(t, 1)

\* span_positions: the indices the spans cover.
SpanPositions(spans) == UNION {sp[1]..(sp[2] - 1) : sp \in spans}

\* any(pattern.match(char) for pattern in script_patterns.values())
AnyScript(script_patterns, char) ==
    \E n \in DOMAIN script_patterns : PatternMatch(script_patterns[n], char)

\* Variant: the code test looks at the spans only, not at single code symbols.
RemoveSkips_SpansOnly(index, char, remove_math, remove_code, span_positions, script_patterns) ==
    \/ remove_code /\ index \in span_positions
    \/ remove_math /\ IsMathSymbol(char)
    \/ DOMAIN script_patterns # {} /\ AnyScript(script_patterns, char)

\* Variant: the math test ignores the remove_math toggle.
RemoveSkips_MathUnguarded(index, char, remove_math, remove_code, span_positions, script_patterns) ==
    \/ remove_code /\ (index \in span_positions \/ IsCodeSymbol(char))
    \/ IsMathSymbol(char)
    \/ DOMAIN script_patterns # {} /\ AnyScript(script_patterns, char)

\* The three "continue" tests of the loop of remove_scripts_and_math.
RemoveSkips(index, char, remove_math, remove_code, span_positions, script_patterns) ==
    \/ remove_code /\ (index \in span_positions \/ IsCodeSymbol(char))
    \/ remove_math /\ IsMathSymbol(char)
    \/ DOMAIN script_patterns # {} /\ AnyScript(script_patterns, char)

RECURSIVE RemoveLoop(_, _, _, _, _, _)
RemoveLoop(nt, index, remove_math, remove_code, span_positions, script_patterns) ==
    IF index > Len(nt) THEN <<>>
    ELSE (IF RemoveSkips(index, nt[index], remove_math, remove_code,
                         span_positions, script_patterns)
          THEN <<>> ELSE <<nt[index]>>)
         \o RemoveLoop(nt, index + 1, remove_math, remove_code,
                       span_positions, script_patterns)

\* An outcome of a filtering call: status "ok" with the returned text, or the
\* name of the exception raised; scanned is the number of characters the
\* per-character loop examined before the call ended.
NoCall == [status |-> "none", out |-> <<>>, scanned |-> 0]
Returned(out, scanned) == [status |-> "ok", out |-> out, scanned |-> scanned]
Raised(exc, scanned) == [status |-> exc, out |-> <<>>, scanned |-> scanned]

\* Variant: no degenerate shortcut.
NothingSelected_Never(script_patterns, with_math, with_code) == FALSE

\* The degenerate test of both filters: nothing is selected.
NothingSelected(script_patterns, with_math, with_code) ==
    DOMAIN script_patterns = {} /\ ~with_math /\ ~with_code

remove_scripts_and_math(t, scr, remove_math, remove_code) ==
    LET normalized_text == NFC(t)
        compiled == _compile_script_patterns(scr)
    IN IF compiled.error # "" THEN Raised(compiled.error, 0)
       ELSE LET script_patterns == compiled.patterns
                span_positions ==
                    IF remove_code
                    THEN SpanPositions(_find_code_spans(normalized_text)) ELSE {}
            IN IF NothingSelected(script_patterns, remove_math, remove_code)
               THEN Returned(normalized_text, 0)
               ELSE Returned(RemoveLoop(normalized_text, 1, remove_math, remove_code,
                                        span_positions, script_patterns),
                             Len(normalized_text))

\* Variant: whitespace is kept whatever keep_whitespace is.
ExtractTakes_AlwaysKeepsSpace(index, char, include_math, include_code, keep_ws, span_positions, script_patterns) ==
    \/ IsSpace(char)
    \/ include_code /\ (index \in span_positions \/ IsCodeSymbol(char))
    \/ include_math /\ IsMathSymbol(char)
    \/ DOMAIN script_patterns # {} /\ AnyScript(script_patterns, char)

\* Variant: a whitespace character is decided by keep_whitespace alone.
ExtractTakes_SpaceFirst(index, char, include_math, include_code, keep_ws, span_positions, script_patterns) ==
    IF IsSpace(char) THEN keep_ws
    ELSE \/ include_code /\ (index \in span_positions \/ IsCodeSymbol(char))
         \/ include_math /\ IsMathSymbol(char)
         \/ DOMAIN script_patterns # {} /\ AnyScript(script_patterns, char)

\* The tests of the loop of extract_scripts_and_math that append the character.
ExtractTakes(index, char, include_math, include_code, keep_ws, span_positions, script_patterns) ==
    \/ keep_ws /\ IsSpace(char)
    \/ include_code /\ (index \in span_positions \/ IsCodeSymbol(char))
    \/ include_math /\ IsMathSymbol(char)
    \/ DOMAIN script_patterns # {} /\ AnyScript(script_patterns, char)

RECURSIVE ExtractLoop(_, _, _, _, _, _, _)
ExtractLoop(nt, index, include_math, include_code, keep_ws, span_positions, script_patterns) ==
    IF index > Len(nt) THEN <<>>
    ELSE (IF ExtractTakes(index, nt[index], include_math, include_code, keep_ws,
                          span_positions, script_patterns)
          THEN <<nt[index]>> ELSE <<>>)
         \o ExtractLoop(nt, index + 1, include_math, include_code, keep_ws,
                        span_positions, script_patterns)

extract_scripts_and_math(t, scr, include_math, include_code, keep_ws) ==
    LET normalized_text == NFC(t)
        compiled == _compile_script_patterns(scr)
    IN IF compiled.error # "" THEN Raised(compiled.error, 0)
       ELSE LET script_patterns == compiled.patterns
                span_positions ==
                    IF include_code
                    THEN SpanPositions(_find_code_spans(normalized_text)) ELSE {}
            IN IF NothingSelected(script_patterns, include_math, include_code)
               THEN Returned(<<>>, 0)
               ELSE Returned(ExtractLoop(normalized_text, 1, include_math,
                                         include_code, keep_ws,
                                         span_positions, script_patterns),
                             Len(normalized_text))

-----------------------------------------------------------------------------
(* character_detection.py and code_detection.py: the two reports. *)

\* round((count / total) * 100, 2) in hundredths of a percent, total > 0:
\* the nearest hundredth, an exact tie going to the even one (no tie arises
\* for total < 32, and below that the float quotient rounds as the exact one).
Round2(count, total) ==
    LET n == count * 10000
        q == n \div total
        r == n % total
    IN IF 2 * r > total \/ (2 * r = total /\ q % 2 = 1) THEN q + 1 ELSE q

\* len(re.findall(regex, normalized_text)) for a one-character pattern.
CountMatches(p, nt) == Cardinality({i \in 1..Len(nt) : PatternMatch(p, nt[i])})

\* Variant: "if has_kanji" instead of "elif has_kanji".
Disambiguate_AlsoChinese(char_counts) ==
    LET is_japanese == char_counts[K_japonais] > 0
        has_kanji == char_counts[K_kanji] > 0
        folded == IF is_japanese
                  THEN [char_counts EXCEPT ![K_japonais] = @ + char_counts[K_kanji]]
                  ELSE char_counts
    IN IF has_kanji
       THEN (K_chinois :> char_counts[K_kanji]) @@ [folded EXCEPT ![K_kanji] = 0]
       ELSE folded

\* Variant: the Han count is folded into "japonais" and left in "kanji" too.
Disambiguate_KeepKanji(char_counts) ==
    LET is_japanese == char_counts[K_japonais] > 0
        has_kanji == char_counts[K_kanji] > 0
    IN IF is_japanese
       THEN [char_counts EXCEPT ![K_japonais] = @ + char_counts[K_kanji]]
       ELSE IF has_kanji
       THEN (K_chinois :> char_counts[K_kanji]) @@ [char_counts EXCEPT ![K_kanji] = 0]
       ELSE char_counts

\* The Japanese/Chinese post-pass over the count map (lines 26-35).
Disambiguate(char_counts) ==
    LET is_japanese == char_counts[K_japonais] > 0
        has_kanji == char_counts[K_kanji] > 0
    IN IF is_japanese
       THEN [char_counts EXCEPT ![K_japonais] = @ + char_counts[K_kanji],
                                ![K_kanji] = 0]
       ELSE IF has_kanji
       THEN (K_chinois :> char_counts[K_kanji]) @@ [char_counts EXCEPT ![K_kanji] = 0]
       ELSE char_counts

\* Variant: every category of the count map gets a percentage.
Reported_AlsoZero(count) == count >= 0

\* "if count > 0": the category gets a percentage.
Reported(count) == count > 0

\* Variant: the synthesized category is registered in the module-level table.
CharacterSetsAfter_Shared(sets, char_counts) ==
    IF K_chinois \in DOMAIN char_counts
    THEN (K_chinois :> sets[K_kanji]) @@ sets
    ELSE sets

\* CHARACTER_SETS after a call of classify_text_with_proportions: char_counts
\* is a dictionary built by the call (line 19), and the writes of lines 29-35
\* go to it; the module-level table is only iterated.
CharacterSetsAfter(sets, char_counts) == sets

\* An outcome of classify_text_with_proportions: the report (category ->
\* hundredths of a percent), with the call's count map and total beside it.
NoReport ==
    [status |-> "none", proportions |-> << >>, char_counts |-> << >>, total |-> 0]

classify_text_with_proportions(t) ==
    LET normalized_text == NFC(t)
        total_characters == Len(normalized_text)
        raw == [charset \in DOMAIN CHARACTER_SETS |->
                    CountMatches(CHARACTER_SETS[charset], normalized_text)]
        char_counts == Disambiguate(raw)
        kept == {charset \in DOMAIN char_counts : Reported(char_counts[charset])}
    IN IF kept # {} /\ total_characters = 0
       THEN [status |-> "ZeroDivisionError", proportions |-> << >>,
             char_counts |-> char_counts, total |-> total_characters]
       ELSE [status |-> "ok",
             proportions |-> [charset \in kept |->
                                 Round2(char_counts[charset], total_characters)],
             char_counts |-> char_counts, total |-> total_characters]

\* Variant: no early return.
NothingToRate_Never(total_characters) == FALSE

\* "if total_characters == 0": the early return of detect_code_like_language.
NothingToRate(total_characters) == total_characters = 0

\* Variant: "code_ratio > threshold".
IsCodeLike_Strict(code_ratio, thr, keyword_matches) ==
    code_ratio > thr \/ keyword_matches > 0

\* is_code_like of the report.
IsCodeLike(code_ratio, thr, keyword_matches) ==
    code_ratio >= thr \/ keyword_matches > 0

NoDetection ==
    [status |-> "none", code_symbols |-> 0, keyword_matches |-> 0,
     total_characters |-> 0, code_ratio |-> 0, is_code_like |-> FALSE]

\* thr and code_ratio are in hundredths of a percent.
detect_code_like_language(t, thr) ==
    LET normalized_text == NFC(t)
        total_characters ==
            Cardinality({i \in 1..Len(normalized_text) : ~IsSpace(normalized_text[i])})
        code_symbols ==
            Cardinality({i \in 1..Len(normalized_text) : IsCodeSymbol(normalized_text[i])})
        keyword_matches == Cardinality(KeywordMatches(normalized_text, 1))
    IN IF NothingToRate(total_characters)
       THEN [status |-> "ok", code_symbols |-> 0, keyword_matches |-> 0,
             total_characters |-> 0, code_ratio |-> 0, is_code_like |-> FALSE]
       ELSE IF total_characters = 0
       THEN [NoDetection EXCEPT !.status = "ZeroDivisionError"]
       ELSE LET code_ratio == Round2(code_symbols, total_characters)
            IN [status |-> "ok", code_symbols |-> code_symbols,
                keyword_matches |-> keyword_matches,
                total_characters |-> total_characters,
                code_ratio |-> code_ratio,
                is_code_like |-> IsCodeLike(code_ratio, thr, keyword_matches)]

-----------------------------------------------------------------------------
(* The calls. *)

\* Texts of the filtering calls: up to MaxTok tokens, a token being one code
\* point or a fence of three backquotes.
TextTokens ==
    {<<32>>, <<96>>, <<43>>, <<105>>, <<102>>, <<8704>>, <<1055>>, <<12363>>,
     <<12441>>, <<96, 96, 96>>}

FilterTexts == {Flatten(ts) : ts \in SeqsUpTo(TextTokens, MaxTok)}

\* Script names of the filtering calls:
\*   " Japonais "  "Cyrillic"  ""  " "  "not_a_real_script"
ScriptNames ==
    {<<32, 74, 97, 112, 111, 110, 97, 105, 115, 32>>, <<67, 121, 114, 105, 108, 108, 105, 99>>,
     <<>>, <<32>>,
     <<110, 111, 116, 95, 97, 95, 114, 101, 97, 108, 95, 115, 99, 114, 105, 112, 116>>}

\* Texts of the two detectors: up to MaxLen code points.
ReportChars == {32, 43, 73, 102, 1055, 12363, 12441, 20013}

\* "Hello Привет 123": the example text of the documentation and the tests.
HelloPrivet123 ==
    <<72, 101, 108, 108, 111, 32, 1055, 1088, 1080, 1074, 1077, 1090, 32, 49, 50, 51>>

ReportTexts == SeqsUpTo(ReportChars, MaxLen) \cup {HelloPrivet123}

\* Thresholds, in hundredths: -1.0, 0.0, the default 1.0, 33.33, 50.0, 100.0.
DefaultThreshold == 100
Thresholds == {-100, 0, DefaultThreshold, 3333, 5000, 10000}

Registry ==
    /\ CHARACTER_SETS = CharacterSetsTable
    /\ SCRIPT_ALIASES = ScriptAliasesTable

NoResults ==
    /\ removed = NoCall
    /\ extracted = NoCall
    /\ classified = NoReport
    /\ detected = NoDetection

InitFilter ==
    /\ Registry
    /\ text \in FilterTexts
    /\ scripts \in SeqsUpTo(ScriptNames, MaxScripts)
    /\ math \in BOOLEAN
    /\ code \in BOOLEAN
    /\ keep_whitespace = TRUE
    /\ threshold = DefaultThreshold
    /\ NoResults

InitReport ==
    /\ Registry
    /\ text \in ReportTexts
    /\ scripts = <<>>
    /\ math = FALSE
    /\ code = FALSE
    /\ keep_whitespace = TRUE
    /\ threshold = DefaultThreshold
    /\ NoResults

\* Texts and script lists of a series of calls:
\*   ""  "中"  "か中"  "か" + voiced mark  "Пi+f"  "`i`"  "if "  "Hello Привет 123"
\*   []  ["Cyrillic"]  [" Japonais "]  ["not_a_real_script"]  ["", "Cyrillic"]
SessionTexts ==
    {<<>>, <<20013>>, <<12363, 20013>>, <<12363, 12441>>, <<1055, 105, 43, 102>>,
     <<96, 105, 96>>, <<105, 102, 32>>, HelloPrivet123}

SessionScripts ==
    {<<>>,
     <<<<67, 121, 114, 105, 108, 108, 105, 99>>>>,
     <<<<32, 74, 97, 112, 111, 110, 97, 105, 115, 32>>>>,
     <<<<110, 111, 116, 95, 97, 95, 114, 101, 97, 108, 95, 115, 99, 114, 105, 112, 116>>>>,
     <<<<>>, <<67, 121, 114, 105, 108, 108, 105, 99>>>>}

Init ==
    /\ Registry
    /\ text \in SessionTexts
    /\ scripts \in SessionScripts
    /\ math \in BOOLEAN
    /\ code \in BOOLEAN
    /\ keep_whitespace = TRUE
    /\ threshold = DefaultThreshold
    /\ NoResults

\* remove_scripts_and_math on the current arguments.  The call reads
\* SCRIPT_ALIASES and writes only its own locals (patterns, span_positions,
\* filtered_chars).
Remove ==
    /\ removed' = remove_scripts_and_math(text, scripts, math, code)
    /\ UNCHANGED <<CHARACTER_SETS, SCRIPT_ALIASES, text, scripts, math, code,
                   keep_whitespace, threshold, extracted, classified, detected>>

\* extract_scripts_and_math; keep_whitespace is an argument of this call alone
\* (default True).
Extract ==
    /\ \E keep_ws \in BOOLEAN :
          /\ keep_whitespace' = keep_ws
          /\ extracted' = extract_scripts_and_math(text, scripts, math, code, keep_ws)
    /\ UNCHANGED <<CHARACTER_SETS, SCRIPT_ALIASES, text, scripts, math, code,
                   threshold, removed, classified, detected>>

\* classify_text_with_proportions; its count map is a dictionary of the call.
Classify ==
    /\ classified' = classify_text_with_proportions(text)
    /\ CHARACTER_SETS' = CharacterSetsAfter(CHARACTER_SETS, classified'.char_counts)
    /\ UNCHANGED <<SCRIPT_ALIASES, text, scripts, math, code,
                   keep_whitespace, threshold, removed, extracted, detected>>

\* detect_code_like_language; threshold is an argument of this call alone
\* (default 1.0).
DetectCode ==
    /\ \E thr \in Thresholds :
          /\ threshold' = thr
          /\ detected' = detect_code_like_language(text, thr)
    /\ UNCHANGED <<CHARACTER_SETS, SCRIPT_ALIASES, text, scripts, math, code,
                   keep_whitespace, removed, extracted, classified>>

\* The caller turns to another text and configuration; the outcomes of the
\* calls on the previous one are dropped, the module-level tables stay as the
\* calls left them.
NewArguments ==
    /\ text' \in SessionTexts
    /\ scripts' \in SessionScripts
    /\ math' \in BOOLEAN
    /\ code' \in BOOLEAN
    /\ keep_whitespace' = TRUE
    /\ threshold' = DefaultThreshold
    /\ removed' = NoCall
    /\ extracted' = NoCall
    /\ classified' = NoReport
    /\ detected' = NoDetection
    /\ UNCHANGED <<CHARACTER_SETS, SCRIPT_ALIASES>>

\* Each call made once on the arguments of the initial state.
CallRemove == removed = NoCall /\ Remove

CallExtract == extracted = NoCall /\ Extract

CallClassify == classified = NoReport /\ Classify

CallDetect == detected = NoDetection /\ DetectCode

NextFilter == CallRemove \/ CallExtract

NextReport == CallClassify \/ CallDetect

Next == NewArguments \/ Remove \/ Extract \/ Classify \/ DetectCode

\* The filtering calls on the filtering inputs.
SpecFilter == InitFilter /\ [][NextFilter]_vars

\* The two detectors on their inputs.
SpecReport == InitReport /\ [][NextReport]_vars

\* Any sequence of calls, repeated and in any order, on a series of texts and
\* configurations.
Spec == Init /\ [][Next]_vars

-----------------------------------------------------------------------------
(* Properties of the filtering calls, under SpecFilter. *)

\* The entry names no script: after trimming and lower-casing it is neither a
\* key of the alias table nor a value of the Unicode Script property.
NotResolvable(script) ==
    LET key == Lower(Strip(script))
    IN key \notin DOMAIN SCRIPT_ALIASES /\ key \notin DOMAIN ScriptValues

\* The entry is empty or whitespace only.
Blank(script) == \A i \in 1..Len(script) : IsSpace(script[i])

\* The fenced blocks, inline spans and keyword occurrences of the normalized
\* text nt, as <<start, end>> pairs, end exclusive.
CodeSpans(nt) == BlockMatches(nt, 1) \cup InlineMatches(nt, 1) \cup KeywordMatches(nt, 1)

\* The three membership tests of position j of nt under the call's arguments,
\* spans being CodeSpans(nt).
CodeMember(nt, j, spans) ==
    (\E sp \in spans : sp[1] <= j /\ j < sp[2]) \/ IsCodeSymbol(nt[j])
MathMember(nt, j) == IsMathSymbol(nt[j])
ScriptMember(nt, j) ==
    \E i \in 1..Len(scripts) :
        /\ ~NotResolvable(scripts[i])
        /\ PatternMatch(ResolvePattern(scripts[i]), nt[j])

\* A selected membership test matches position j.
Selected(nt, j, spans) ==
    \/ code /\ CodeMember(nt, j, spans)
    \/ math /\ MathMember(nt, j)
    \/ ScriptMember(nt, j)

\* C1: with scripts only (no math, no code) and keepWhitespace = false, the
\* outputs of remove and extract partition the normalized text: some set S of
\* positions gives remove's output, its complement gives extract's, both in
\* the original order, and the two lengths add up to the normalized length.
C1_Partition ==
    (/\ removed.status = "ok" /\ extracted.status = "ok"
     /\ ~math /\ ~code /\ ~keep_whitespace)
    => LET nt == NFC(text)
           all == 1..Len(nt)
       IN /\ Len(removed.out) + Len(extracted.out) = Len(nt)
          /\ \E S \in SUBSET all :
                /\ removed.out = SubAt(nt, S, 1)
                /\ extracted.out = SubAt(nt, all \ S, 1)

\* Both calls returned, both outputs are non-empty, and normalization changed
\* the text.
C1_Witness ==
    /\ removed.status = "ok" /\ extracted.status = "ok"
    /\ ~math /\ ~code /\ ~keep_whitespace
    /\ removed.out # <<>> /\ extracted.out # <<>>
    /\ NFC(text) # text

\* The call failed fast: ValueError, nothing emitted, no character examined.
FailedFast(outcome) == outcome = Raised("ValueError", 0)

\* C2 as stated: if any entry of the list names no script, remove and extract
\* fail with ValueError before any character is examined or emitted.
C2_Original ==
    (\E i \in 1..Len(scripts) : NotResolvable(scripts[i]))
    => /\ removed.status # "none" => FailedFast(removed)
       /\ extracted.status # "none" => FailedFast(extracted)

\* C2, amended: if any entry that is not blank names no script, remove and
\* extract fail with ValueError before any character is examined or emitted,
\* whatever the position of the entry, the text and the toggles.
C2_FailFast ==
    (\E i \in 1..Len(scripts) : ~Blank(scripts[i]) /\ NotResolvable(scripts[i]))
    => /\ removed.status # "none" => FailedFast(removed)
       /\ extracted.status # "none" => FailedFast(extracted)

\* Both calls failed on a bad name in second position, after a name that
\* resolves, with a non-empty text and math and code off.
C2_Witness ==
    /\ Len(scripts) = 2 /\ ~NotResolvable(scripts[1])
    /\ ~Blank(scripts[2]) /\ NotResolvable(scripts[2])
    /\ text # <<>> /\ ~math /\ ~code
    /\ FailedFast(removed) /\ FailedFast(extracted)

\* Entry i takes part in the script test of a call that returned: remove's
\* output holds no character the entry's predicate matches, and extract's
\* output holds every such character of the normalized text.
TakesPart(i) ==
    LET p == ResolvePattern(scripts[i])
    IN /\ removed.status = "ok" =>
            \A k \in 1..Len(removed.out) : ~PatternMatch(p, removed.out[k])
       /\ extracted.status = "ok" =>
            CountMatches(p, extracted.out) = CountMatches(p, NFC(text))

\* C3 as stated: every entry of the list, blank ones included, either
\* resolves to a predicate that takes part in the script test or makes the
\* call fail with ValueError.
C3_Original ==
    \A i \in 1..Len(scripts) :
        \/ /\ removed.status \in {"none", "ValueError"}
           /\ extracted.status \in {"none", "ValueError"}
        \/ ~NotResolvable(scripts[i]) /\ TakesPart(i)

\* C3, amended: every entry that is not blank either resolves to a predicate
\* that takes part in the script test or makes the call fail with ValueError;
\* a blank entry is skipped and is no error by itself.
C3_NeverIgnored ==
    /\ \A i \in 1..Len(scripts) :
          \/ Blank(scripts[i])
          \/ /\ removed.status \in {"none", "ValueError"}
             /\ extracted.status \in {"none", "ValueError"}
          \/ ~NotResolvable(scripts[i]) /\ TakesPart(i)
    /\ (\A i \in 1..Len(scripts) : Blank(scripts[i]))
       => removed.status # "ValueError" /\ extracted.status # "ValueError"

\* Both calls returned for two different names that resolve, and the text
\* holds a character only the second one matches.
C3_Witness ==
    /\ removed.status = "ok" /\ extracted.status = "ok"
    /\ Len(scripts) = 2
    /\ ~NotResolvable(scripts[1]) /\ ~NotResolvable(scripts[2])
    /\ \E j \in 1..Len(NFC(text)) :
          /\ PatternMatch(ResolvePattern(scripts[2]), NFC(text)[j])
          /\ ~PatternMatch(ResolvePattern(scripts[1]), NFC(text)[j])

\* C4: remove returns exactly the characters of the normalized text, in
\* order, for which no selected membership test matches (code only if
\* remove_code, math only if remove_math, scripts only if given).
C4_RemoveExact ==
    removed.status = "ok"
    => LET nt == NFC(text)
           spans == CodeSpans(nt)
       IN removed.out = SubAt(nt, {j \in 1..Len(nt) : ~Selected(nt, j, spans)}, 1)

\* remove ran with math on and code off on a text with a math symbol, and
\* kept a code symbol that matches no selected test.
C4_Witness ==
    /\ removed.status = "ok" /\ math /\ ~code
    /\ \E j \in 1..Len(text) : IsMathSymbol(text[j])
    /\ \E k \in 1..Len(removed.out) : IsCodeSymbol(removed.out[k])

\* Something is selected by the call that returned.
SelectionActive ==
    \/ math \/ code
    \/ \E i \in 1..Len(scripts) : ~Blank(scripts[i]) /\ ~NotResolvable(scripts[i])

KeptPositions(nt) ==
    LET spans == CodeSpans(nt)
    IN {j \in 1..Len(nt) : ~Selected(nt, j, spans)}

\* The position of nt the k-th character of remove's output comes from.
Origin(kept, k) == CHOOSE j \in kept : Cardinality({x \in kept : x <= j}) = k

\* C12 as stated: with remove_code the output has no code symbol and the
\* keyword pattern finds no match in it.
C12_Original ==
    (removed.status = "ok" /\ code)
    => /\ \A k \in 1..Len(removed.out) : ~IsCodeSymbol(removed.out[k])
       /\ KeywordMatches(removed.out, 1) = {}

\* C12, amended: with remove_code the output has no code symbol and none of
\* the characters of a keyword occurrence, fenced block or inline span of the
\* normalized text; the keyword pattern can match the output only where a
\* removed character stood inside or right beside the matched letters in the
\* text ("i+f" gives "if").
C12_NoCodeTokenSurvives ==
    (removed.status = "ok" /\ code)
    => LET nt == NFC(text)
           kept == KeptPositions(nt)
           out == removed.out
       IN /\ \A k \in 1..Len(out) : ~IsCodeSymbol(out[k])
          /\ out = SubAt(nt, kept, 1)
          /\ kept \cap SpanPositions(CodeSpans(nt)) = {}
          /\ \A m \in KeywordMatches(out, 1) :
                \E j \in (Origin(kept, m[1]) - 1)..(Origin(kept, m[2] - 1) + 1) :
                    j \in 1..Len(nt) /\ j \notin kept

\* remove ran with remove_code on a text with a code symbol, and the keyword
\* pattern matches its output.
C12_Witness ==
    /\ removed.status = "ok" /\ code
    /\ \E j \in 1..Len(text) : IsCodeSymbol(text[j])
    /\ KeywordMatches(removed.out, 1) # {}

-----------------------------------------------------------------------------
(* Properties of the two detectors, under SpecReport. *)

RECURSIVE SumOver(_, _)
SumOver(f, S) ==
    IF S = {} THEN 0
    ELSE LET x == CHOOSE y \in S : TRUE IN f[x] + SumOver(f, S \ {x})

\* Kana and Han code points, as CHARACTER_SETS["japonais"] and ["kanji"] give
\* them.
IsKana(c) == c \in 12352..12447 \/ c \in 12448..12543 \/ c \in 12784..12799
IsHan(c) == c \in 19968..40959

CountKana(t) == Cardinality({i \in 1..Len(t) : IsKana(t[i])})
CountHan(t) == Cardinality({i \in 1..Len(t) : IsHan(t[i])})
CountSymbols(t) == Cardinality({i \in 1..Len(t) : IsCodeSymbol(t[i])})
CountSpaces(t) == Cardinality({i \in 1..Len(t) : IsSpace(t[i])})

\* C7: if the text holds a kana character the report has no "kanji" and no
\* "chinois" and "japonais" counts the kana and the Han characters of the
\* normalized text; with Han and no kana the Han count is under "chinois" and
\* the report has no "kanji" and no "japonais"; never both "japonais" and
\* "chinois".
C7_JapaneseOrChinese ==
    classified.status = "ok"
    => LET nt == NFC(text)
           kana == CountKana(nt)
           han == CountHan(nt)
           cats == DOMAIN classified.proportions
       IN /\ K_kanji \notin cats
          /\ ~(K_japonais \in cats /\ K_chinois \in cats)
          /\ CountKana(text) > 0 =>
                /\ K_chinois \notin cats
                /\ classified.char_counts[K_japonais] = kana + han
                /\ K_japonais \in cats
                /\ classified.proportions[K_japonais] = Round2(kana + han, Len(nt))
          /\ (CountKana(text) = 0 /\ han > 0) =>
                /\ K_japonais \notin cats
                /\ K_chinois \in cats
                /\ classified.proportions[K_chinois] = Round2(han, Len(nt))

\* classify ran on a text with kana and Han characters that normalization
\* shortens.
C7_Witness ==
    /\ classified.status = "ok"
    /\ CountKana(text) > 0 /\ CountHan(text) > 0
    /\ Len(NFC(text)) < Len(text)

\* The maximal runs of word characters of t that are a keyword, ignoring case.
KeywordWords(t) ==
    {w \in (1..Len(t)) \X (1..Len(t)) :
        /\ w[1] <= w[2]
        /\ \A i \in w[1]..w[2] : IsWordChar(t[i])
        /\ w[1] = 1 \/ ~IsWordChar(t[w[1] - 1])
        /\ w[2] = Len(t) \/ ~IsWordChar(t[w[2] + 1])
        /\ [i \in 1..(w[2] - w[1] + 1) |-> LowerChar(t[w[1] + i - 1])] \in CODE_KEYWORDS}

\* C8: on a text with a character that is not whitespace, is_code_like is
\* (code_ratio >= threshold) or (keyword_matches > 0), code_ratio being the
\* share of code symbols among the non-whitespace characters and
\* keyword_matches the number of keywords standing as whole words, ignoring
\* case: one keyword makes the text code-like at every threshold, and without
\* keywords the threshold is met inclusively.
C8_CodeLike ==
    (detected.status # "none" /\ \E j \in 1..Len(text) : ~IsSpace(text[j]))
    => LET nt == NFC(text)
           symbols == CountSymbols(nt)
           nonspace == Len(nt) - CountSpaces(nt)
           keywords == Cardinality(KeywordWords(nt))
           ratio == Round2(symbols, nonspace)
       IN /\ detected.status = "ok"
          /\ detected.code_ratio = ratio
          /\ detected.keyword_matches = keywords
          /\ detected.is_code_like = (ratio >= threshold \/ keywords > 0)

\* detect ran with threshold 100.0 on a text with a keyword written in mixed
\* case and no code symbol, and reports it code-like.
C8_Witness ==
    /\ detected.status = "ok" /\ threshold = 10000
    /\ detected.code_symbols = 0 /\ detected.keyword_matches = 1
    /\ detected.is_code_like
    /\ \E j \in 1..Len(text) : text[j] = 73

\* C9: on an empty or whitespace-only text, detect returns the all-zero
\* report with is_code_like false at every threshold, and classify returns an
\* empty report on the empty text; neither divides by zero.
C9_EmptyInput ==
    /\ (detected.status # "none" /\ \A j \in 1..Len(text) : IsSpace(text[j]))
       => detected = [status |-> "ok", code_symbols |-> 0, keyword_matches |-> 0,
                      total_characters |-> 0, code_ratio |-> 0,
                      is_code_like |-> FALSE]
    /\ (classified.status # "none" /\ text = <<>>)
       => classified.status = "ok" /\ DOMAIN classified.proportions = {}
    /\ detected.status # "ZeroDivisionError"
    /\ classified.status # "ZeroDivisionError"

\* detect ran on a whitespace-only text with a negative threshold.
C9_Witness ==
    /\ text # <<>> /\ \A j \in 1..Len(text) : IsSpace(text[j])
    /\ detected.status = "ok" /\ threshold < 0
    /\ classified.status = "ok"

\* C10: the percentages of the categories other than "autre" sum to at most
\* 100.00 plus 0.005 per reported category, each being the count over the
\* code-point count of the normalized text (whitespace included) times 100,
\* to the nearest hundredth.
C10_SumAtMost100 ==
    classified.status = "ok"
    => LET nt == NFC(text)
           exclusive == DOMAIN classified.proportions \ {K_autre}
       IN /\ 2 * SumOver(classified.proportions, exclusive)
                <= 20000 + Cardinality(exclusive)
          /\ \A c \in DOMAIN classified.proportions :
                LET d == classified.proportions[c] * Len(nt)
                         - classified.char_counts[c] * 10000
                IN 2 * d <= Len(nt) /\ -2 * d <= Len(nt)

\* classify reported two exclusive categories of 33.33 each on a text of
\* three code points, one of them whitespace.
C10_Witness ==
    /\ classified.status = "ok"
    /\ Cardinality(DOMAIN classified.proportions \ {K_autre}) = 2
    /\ SumOver(classified.proportions, DOMAIN classified.proportions \ {K_autre}) = 6666
    /\ Len(NFC(text)) = 3
    /\ \E j \in 1..Len(text) : IsSpace(text[j])

\* The characters of nt in the Cyrillic block, and those outside Basic Latin.
CountCyrillic(nt) == Cardinality({j \in 1..Len(nt) : nt[j] >= 1024 /\ nt[j] <= 1279})
CountNonBasicLatin(nt) == Cardinality({j \in 1..Len(nt) : nt[j] > 127})

\* The text has a Cyrillic character and no other character outside Basic
\* Latin.
OnlyCyrillicBeyondLatin(nt) ==
    CountCyrillic(nt) > 0 /\ CountNonBasicLatin(nt) = CountCyrillic(nt)

\* C11 as stated: classify("Hello Привет 123") is exactly {"russe": 28.57},
\* and a text whose only characters outside Basic Latin are Cyrillic yields
\* the single category "russe".
C11_Original ==
    classified.status = "ok"
    => /\ text = HelloPrivet123 => classified.proportions = (K_russe :> 2857)
       /\ OnlyCyrillicBeyondLatin(NFC(text))
             => DOMAIN classified.proportions = {K_russe}

\* C11, amended: classify("Hello Привет 123") is exactly {"russe": 37.5,
\* "autre": 37.5} (6 Cyrillic letters of 16 code points, spaces and digits
\* counted in the total), and a text whose only characters outside Basic
\* Latin are Cyrillic yields exactly the two categories "russe" and "autre",
\* both with the share of its Cyrillic characters, to the nearest hundredth.
C11_RusseAndAutre ==
    classified.status = "ok"
    => /\ text = HelloPrivet123
             => classified.proportions = (K_russe :> 3750) @@ (K_autre :> 3750)
       /\ OnlyCyrillicBeyondLatin(NFC(text))
             => LET nt == NFC(text)
                    p == classified.proportions
                IN /\ DOMAIN p = {K_russe, K_autre}
                   /\ p[K_russe] = p[K_autre]
                   /\ LET d == p[K_russe] * Len(nt) - CountCyrillic(nt) * 10000
                      IN 2 * d <= Len(nt) /\ -2 * d <= Len(nt)

\* classify ran on "Hello Привет 123".
C11_Witness ==
    /\ text = HelloPrivet123
    /\ classified.status = "ok"
    /\ K_russe \in DOMAIN classified.proportions

-----------------------------------------------------------------------------
(* Properties of sequences of calls, under Spec. *)

\* The step keeps the text and the configuration.
SameArguments ==
    /\ text' = text /\ scripts' = scripts
    /\ math' = math /\ code' = code

\* C13: no call changes CHARACTER_SETS or SCRIPT_ALIASES, whether it returns
\* or fails with ValueError, and "chinois" never becomes a key of either; a
\* call repeated with the same arguments, whatever calls came in between,
\* gives the result it gave before.  After any earlier calls on any earlier
\* texts, classify of kana followed by a Han character still reports
\* {"japonais": 100.0, "autre": 100.0}, and remove of the script "Cyrillic"
\* from "Hello Привет 123" still returns "Hello  123".
C13_RegistryFrame ==
    [][/\ CHARACTER_SETS' = CHARACTER_SETS
       /\ SCRIPT_ALIASES' = SCRIPT_ALIASES
       /\ CHARACTER_SETS' = CharacterSetsTable
       /\ SCRIPT_ALIASES' = ScriptAliasesTable
       /\ K_chinois \notin DOMAIN CHARACTER_SETS' \cup DOMAIN SCRIPT_ALIASES'
       /\ SameArguments =>
             /\ (removed # NoCall /\ removed' # NoCall) => removed' = removed
             /\ (extracted # NoCall /\ extracted' # NoCall
                    /\ keep_whitespace' = keep_whitespace)
                => extracted' = extracted
             /\ (classified # NoReport /\ classified' # NoReport)
                => classified' = classified
             /\ (detected # NoDetection /\ detected' # NoDetection
                    /\ threshold' = threshold)
                => detected' = detected
       /\ (text' = <<12363, 20013>> /\ classified' # NoReport)
          => classified'.proportions = (K_japonais :> 10000) @@ (K_autre :> 10000)
       /\ (/\ text' = HelloPrivet123
           /\ scripts' = <<<<67, 121, 114, 105, 108, 108, 105, 99>>>>
           /\ ~math' /\ ~code' /\ removed' # NoCall)
          => removed' = Returned(<<72, 101, 108, 108, 111, 32, 32, 49, 50, 51>>, 16)]_vars

\* All four calls were made on a text of Han characters without kana:
\* classify wrote "chinois" into its count map, and both filters failed on an
\* unknown script name.
C13_Witness ==
    /\ classified.status = "ok"
    /\ K_chinois \in DOMAIN classified.char_counts
    /\ removed.status = "ValueError"
    /\ extracted.status = "ValueError"
    /\ detected.status = "ok"

=============================================================================
